---- MODULE Spec2Model ----
(***************************************************************************)
(* Model of add_knowledge_remaining.py: the section injector               *)
(* add_knowledge_section(file_path, agent_name) and the batch driver       *)
(* main() that applies it to every file of REMAINING_AGENTS.               *)
(*                                                                         *)
(* A text is a sequence of characters, each a one-character string.  The   *)
(* long literal runs of the source (the marker's title, the prose of the   *)
(* template) are abbreviated to a few letters; none of them holds a "#"    *)
(* or a line break, and the abbreviations keep that.                       *)
(***************************************************************************)
EXTENDS Integers, Sequences, FiniteSets, TLC

VARIABLES fs, pc, idx, updated_count, runs, calls, visited, snapshot, counts

vars == <<fs, pc, idx, updated_count, runs, calls, visited, snapshot, counts>>

-----------------------------------------------------------------------------
(* Bounds *)

\* main() is modelled over the first NumAgents entries of REMAINING_AGENTS.
NumAgents == 3
\* A document of the single-call specification is built from at most
\* MaxPieces pieces of Pieces.
MaxPieces == 5
\* add_knowledge_section is called at most MaxCalls times on one document.
MaxCalls == 3
\* main() is run at most MaxRuns times in a row.
MaxRuns == 2

-----------------------------------------------------------------------------
(* Program constants *)

NL == "\n"

\* REMAINING_AGENTS, the list of file names.
REMAINING_AGENTS ==
  << <<"v","i","b","e","-","e","l","i","z","a","o","s",".","m","d">>,
     <<"v","i","b","e","-","a","i","-","l","l","m",".","m","d">>,
     <<"v","i","b","e","-","m","c","p",".","m","d">>,
     <<"v","i","b","e","-","s","e","n","t","r","y",".","m","d">>,
     <<"v","i","b","e","-","l","a","n","g","f","u","s","e",".","m","d">>,
     <<"v","i","b","e","-","r","o","i",".","m","d">>,
     <<"v","i","b","e","-","u","p","d","a","t","e","r",".","m","d">>,
     <<"v","i","b","e","-","k","n","o","w","l","e","d","g","e","-",
       "k","e","e","p","e","r",".","m","d">>,
     <<"v","i","b","e","-","d","i","a","g","n","o","s","t","i","c","s",
       ".","m","d">>,
     <<"v","i","b","e","-","l","e","a","r","n",".","m","d">>,
     <<"v","i","b","e","-","q","u","e","e","n",".","m","d">>,
     <<"v","i","b","e","-","c","i","c","d",".","m","d">>
  >>

\* The files main() visits in the model: a prefix of REMAINING_AGENTS.
Agents == SubSeq(REMAINING_AGENTS, 1, NumAgents)

\* The literal tested at line 32 and written at line 46: "### " and the title
\* (abbreviated to "K","n").
Marker == <<"#","#","#"," ","K","n">>

\* The f-string of lines 45-77 as its literal runs, one item per character,
\* with the replacement field "{agent_name}" between them; "{{" and "}}" are
\* the escaped braces.  Every line of the source is kept; each prose run is
\* abbreviated to the letter "t", and the backquote is written "~".
Template ==
  << <<NL>>
     \o Marker \o <<NL>>
     \o <<NL>>
     \o <<"*","*","t",":","*","*",NL>>
     \o <<"-"," ","~","t","~",NL>>
     \o <<"-"," ","~","t","~",NL>>
     \o <<"-"," ","~","t","~",NL>>
     \o <<"-"," ","~","t","~",NL>>
     \o <<"-"," ","~","t","~",NL>>
     \o <<"-"," ","~","t","~",NL>>
     \o <<NL>>
     \o <<"*","*","t",":","*","*",NL>>
     \o <<"-"," ","~","t","~",NL>>
     \o <<"-"," ","~","t","~",NL>>
     \o <<"-"," ","t",NL>>
     \o <<NL>>
     \o <<"*","*","t",":","*","*",NL>>
     \o <<"~","~","~","t",NL>>
     \o <<"/","/"," ","t",NL>>
     \o <<"T","(","{{",NL>>
     \o <<" "," ","t",":"," ","'">>,
     "{agent_name}",
     <<"'",",",NL>>
     \o <<" "," ","t",":"," ","'","t"," ">>,
     "{agent_name}",
     <<"'",",",NL>>
     \o <<" "," ","t",":"," ","'","t","'",",",NL>>
     \o <<" "," ","t",":"," ","'","t","'"," "," ","/","/"," ","t",NL>>
     \o <<"}}",")",";",NL>>
     \o <<NL>>
     \o <<"/","/"," ","t",NL>>
     \o <<"c"," ","="," ","T","(","{{",NL>>
     \o <<" "," ","t",":"," ","'">>,
     "{agent_name}",
     <<"'",",",NL>>
     \o <<" "," ","t",":"," ","'","t","'",NL>>
     \o <<"}}",")",";",NL>>
     \o <<"~","~","~",NL>> >>

-----------------------------------------------------------------------------
(* Pure helpers *)

\* Mutant of IsIn: the test  s.startswith(sub)  in place of  sub in s.
IsInAtStart(sub, s) ==
  Len(sub) <= Len(s) /\ SubSeq(s, 1, Len(sub)) = sub

\* Python's  sub in s  on strings.
IsIn(sub, s) ==
  \E i \in 0..(Len(s) - Len(sub)) : SubSeq(s, i + 1, i + Len(sub)) = sub

\* Whether s has sub at 0-based offset i.
HasAt(s, sub, i) ==
  /\ i + Len(sub) <= Len(s)
  /\ SubSeq(s, i + 1, i + Len(sub)) = sub

\* Python's  s.replace(old, '') : every non-overlapping occurrence of old,
\* found left to right, is removed.
RECURSIVE Remove(_, _)
Remove(s, old) ==
  IF s = <<>> THEN <<>>
  ELSE IF HasAt(s, old, 0)
       THEN Remove(SubSeq(s, Len(old) + 1, Len(s)), old)
       ELSE <<Head(s)>> \o Remove(Tail(s), old)

\* main(), line 98: agent_name = filename.replace('.md', '')
AgentName(filename) == Remove(filename, <<".","m","d">>)

\* A literal run of an f-string with its escaped braces resolved.
Literal(run) ==
  [i \in 1..Len(run) |-> IF run[i] = "{{" THEN "{"
                         ELSE IF run[i] = "}}" THEN "}"
                         ELSE run[i]]

\* The value of the f-string of lines 45-77 for a given agent_name.
RECURSIVE Format(_, _)
Format(tpl, agent_name) ==
  IF tpl = <<>> THEN <<>>
  ELSE (IF Head(tpl) = "{agent_name}" THEN agent_name ELSE Literal(Head(tpl)))
       \o Format(Tail(tpl), agent_name)

\* Mutant of KnowledgeSection: the heading written has another title than the
\* marker that is tested.
KnowledgeSectionOtherTitle(agent_name) ==
  LET b == Format(Template, agent_name)
  IN [i \in 1..Len(b) |-> IF b[i] = "K" THEN "Q" ELSE b[i]]

KnowledgeSection(agent_name) == Format(Template, agent_name)

\* open(file_path, 'r', encoding='utf-8').read(): text mode with universal
\* newlines, so "\r\n" and a lone "\r" are both read as "\n".
ReadText(stored) ==
  LET withPrev == [i \in 1..Len(stored) |->
                     <<stored[i], IF i > 1 THEN stored[i - 1] ELSE "">>]
      kept == SelectSeq(withPrev, LAMBDA x : ~(x[1] = NL /\ x[2] = "\r"))
  IN [i \in 1..Len(kept) |-> IF kept[i][1] = "\r" THEN NL ELSE kept[i][1]]

\* open(file_path, 'w', encoding='utf-8').write(text): "\n" is written as
\* os.linesep, which is "\n" on the POSIX systems the script is run on.
WriteText(text) == text

\* The end (Python's match.end(), a 0-based offset) of the match of
\*   ## [^#\n]+[^#]\n
\* that starts at 0-based offset s of c, or -1 when none starts there.  The
\* greedy [^#\n]+ takes the longest run j that lets the rest match.
MatchEnd(c, s) ==
  IF ~HasAt(c, <<"#","#"," ">>, s) THEN -1
  ELSE LET p == s + 3
           J == { j \in 1..(Len(c) - p - 2) :
                    /\ \A q \in 1..j : c[p + q] \notin {"#", NL}
                    /\ c[p + j + 1] # "#"
                    /\ c[p + j + 2] = NL }
       IN IF J = {} THEN -1
          ELSE p + (CHOOSE j \in J : \A o \in J : o <= j) + 2

NoMatch == [start |-> -1, end |-> -1]

\* re.search(pattern, content): the match at the leftmost offset that has one.
Search(content) ==
  LET S == { s \in 0..(Len(content) - 1) : MatchEnd(content, s) # -1 }
  IN IF S = {} THEN NoMatch
     ELSE LET s0 == CHOOSE s \in S : \A o \in S : s <= o
          IN [start |-> s0, end |-> MatchEnd(content, s0)]

\* Mutant of Splice: content[:insert_pos] + knowledge_section
\* + content[insert_pos + 1:], which drops the character at the offset.
SpliceOver(content, insert_pos, knowledge_section) ==
  SubSeq(content, 1, insert_pos) \o knowledge_section
    \o SubSeq(content, insert_pos + 2, Len(content))

\* content[:insert_pos] + knowledge_section + content[insert_pos:]
Splice(content, insert_pos, knowledge_section) ==
  SubSeq(content, 1, insert_pos) \o knowledge_section
    \o SubSeq(content, insert_pos + 1, Len(content))

\* Mutant of AddKnowledgeSection: the same line is printed whether the marker
\* was found or no place to insert was.
AddKnowledgeSectionOneMessage(stored, agent_name) ==
  LET content == ReadText(stored)
      match == Search(content)
  IN IF IsIn(Marker, content) \/ match = NoMatch
     THEN [content |-> content, ret |-> FALSE, msg |-> "exists",
           start |-> -1, insert_pos |-> -1, wrote |-> FALSE, stored |-> stored]
     ELSE [content |-> content, ret |-> TRUE, msg |-> "added",
           start |-> match.start, insert_pos |-> match.end, wrote |-> TRUE,
           stored |-> WriteText(Splice(content, match.end,
                                       KnowledgeSection(agent_name)))]

\* add_knowledge_section(file_path, agent_name) on a file holding `stored`:
\* what it reads, returns and prints, and what it writes back if it writes.
AddKnowledgeSection(stored, agent_name) ==
  LET content == ReadText(stored)
      match == Search(content)
  IN IF IsIn(Marker, content)
     THEN [content |-> content, ret |-> FALSE, msg |-> "exists",
           start |-> -1, insert_pos |-> -1, wrote |-> FALSE, stored |-> stored]
     ELSE IF match = NoMatch
     THEN [content |-> content, ret |-> FALSE, msg |-> "noplace",
           start |-> -1, insert_pos |-> -1, wrote |-> FALSE, stored |-> stored]
     ELSE [content |-> content, ret |-> TRUE, msg |-> "added",
           start |-> match.start, insert_pos |-> match.end, wrote |-> TRUE,
           stored |-> WriteText(Splice(content, match.end,
                                       KnowledgeSection(agent_name)))]

-----------------------------------------------------------------------------
(* State *)

\* fs[k] is the text stored in the file os.path.join(agents_dir, Agents[k]),
\* or NoFile when os.path.exists is false.
NoFile == <<"NoFile">>

Files == 1..NumAgents

\* The record kept of one call of add_knowledge_section.
CallRecord(k, r) ==
  [file |-> k, run |-> runs, before |-> fs[k], content |-> r.content,
   ret |-> r.ret, msg |-> r.msg, start |-> r.start,
   insert_pos |-> r.insert_pos, wrote |-> r.wrote,
   after |-> IF r.wrote THEN r.stored ELSE fs[k]]

\* The pieces documents of the single-call specification are built from.
Pieces ==
  { <<"#">>, <<"#","#"," ">>, <<" ">>, <<NL>>, <<"a">>, <<"\t">>, Marker }

RECURSIVE TextsUpTo(_)
TextsUpTo(n) ==
  IF n = 0 THEN { <<>> }
  ELSE LET prev == TextsUpTo(n - 1)
       IN prev \cup { t \o p : t \in prev, p \in Pieces }

Texts == TextsUpTo(MaxPieces)

\* The documents of the batch specification, which the single-call
\* specification also draws from.
BatchDocs ==
  { <<"#"," ","T",NL,"#","#"," ","S","e",NL,"B","o",NL>>,
    <<"#","#"," ","a","b",NL>> \o Marker \o <<NL>>,
    <<"#"," ","T",NL,"a","b",NL>>,
    <<"#","#"," ","a",NL,NL,"b">>,
    <<"#","#","#"," ","a","b",NL>>,
    <<"#","#"," ","a",NL,"b">>,
    <<"#","#"," ","a","b","\r",NL,"x">> }

-----------------------------------------------------------------------------
(* Single-call specification: add_knowledge_section called repeatedly on one
   document. *)

\* The files the single-call specification draws its document from.
InjectFiles == {1, 2}

InitInject ==
  /\ \E k \in InjectFiles, t \in Texts \cup BatchDocs :
        /\ fs = [f \in Files |-> IF f = k THEN t ELSE NoFile]
        /\ idx = k
  /\ pc = "inject"
  /\ updated_count = 0
  /\ runs = 0
  /\ calls = <<>>
  /\ visited = <<>>
  /\ snapshot = fs
  /\ counts = <<>>

CallInject ==
  /\ pc = "inject"
  /\ Len(calls) < MaxCalls
  /\ LET r == AddKnowledgeSection(fs[idx], AgentName(Agents[idx]))
     IN /\ fs' = IF r.wrote THEN [fs EXCEPT ![idx] = r.stored] ELSE fs
        /\ calls' = Append(calls, CallRecord(idx, r))
  /\ UNCHANGED <<pc, idx, updated_count, runs, visited, snapshot, counts>>

NextInject == CallInject

SpecInject == InitInject /\ [][NextInject]_vars

-----------------------------------------------------------------------------
(* Batch specification: main() *)

Init ==
  /\ fs \in [Files -> BatchDocs \cup {NoFile}]
  /\ pc = "idle"
  /\ idx = 0
  /\ updated_count = 0
  /\ runs = 0
  /\ calls = <<>>
  /\ visited = <<>>
  /\ snapshot = fs
  /\ counts = <<>>

\* Lines 92-93: a run of main() begins.
MainStart ==
  /\ pc \in {"idle", "done"}
  /\ runs < MaxRuns
  /\ pc' = "loop"
  /\ idx' = 1
  /\ updated_count' = 0
  /\ runs' = runs + 1
  /\ visited' = <<>>
  /\ snapshot' = fs
  /\ UNCHANGED <<fs, calls, counts>>

\* Mutant of MainIter: the loop is left at the first file that is missing or
\* not updated.
MainIterStop ==
  /\ pc = "loop"
  /\ idx <= Len(Agents)
  /\ IF fs[idx] # NoFile
     THEN LET r == AddKnowledgeSection(fs[idx], AgentName(Agents[idx]))
          IN /\ fs' = IF r.wrote THEN [fs EXCEPT ![idx] = r.stored] ELSE fs
             /\ calls' = Append(calls, CallRecord(idx, r))
             /\ updated_count' = IF r.ret THEN updated_count + 1
                                 ELSE updated_count
             /\ idx' = IF r.ret THEN idx + 1 ELSE Len(Agents) + 1
     ELSE /\ UNCHANGED <<fs, calls, updated_count>>
          /\ idx' = Len(Agents) + 1
  /\ visited' = Append(visited, idx)
  /\ UNCHANGED <<pc, runs, snapshot, counts>>

\* Mutant of MainIter: every file that exists is counted, whatever the call
\* returned.
MainIterCountAll ==
  /\ pc = "loop"
  /\ idx <= Len(Agents)
  /\ IF fs[idx] # NoFile
     THEN LET r == AddKnowledgeSection(fs[idx], AgentName(Agents[idx]))
          IN /\ fs' = IF r.wrote THEN [fs EXCEPT ![idx] = r.stored] ELSE fs
             /\ calls' = Append(calls, CallRecord(idx, r))
             /\ updated_count' = updated_count + 1
     ELSE UNCHANGED <<fs, calls, updated_count>>
  /\ visited' = Append(visited, idx)
  /\ idx' = idx + 1
  /\ UNCHANGED <<pc, runs, snapshot, counts>>

\* Lines 95-102: one iteration of the for loop.
MainIter ==
  /\ pc = "loop"
  /\ idx <= Len(Agents)
  /\ IF fs[idx] # NoFile
     THEN LET r == AddKnowledgeSection(fs[idx], AgentName(Agents[idx]))
          IN /\ fs' = IF r.wrote THEN [fs EXCEPT ![idx] = r.stored] ELSE fs
             /\ calls' = Append(calls, CallRecord(idx, r))
             /\ updated_count' = IF r.ret THEN updated_count + 1
                                 ELSE updated_count
     ELSE UNCHANGED <<fs, calls, updated_count>>
  /\ visited' = Append(visited, idx)
  /\ idx' = idx + 1
  /\ UNCHANGED <<pc, runs, snapshot, counts>>

\* Line 104: the loop is over and the count is printed.
MainEnd ==
  /\ pc = "loop"
  /\ idx > Len(Agents)
  /\ pc' = "done"
  /\ counts' = Append(counts, updated_count)
  /\ UNCHANGED <<fs, idx, updated_count, runs, calls, visited, snapshot>>

Next == MainStart \/ MainIter \/ MainEnd

Spec == Init /\ [][Next]_vars

-----------------------------------------------------------------------------
(* Vocabulary of the properties *)

\* The marker occurs in t, character by character, at some position.
MarkerOccurs(t) ==
  \E i \in 1..Len(t) :
     \A j \in 1..Len(Marker) : i + j - 1 <= Len(t) /\ t[i + j - 1] = Marker[j]

MarkerCount(t) ==
  Cardinality({ i \in 1..Len(t) :
     \A j \in 1..Len(Marker) : i + j - 1 <= Len(t) /\ t[i + j - 1] = Marker[j] })

Blank == {" ", "\t"}

\* The 0-based offset i of t begins a line.
IsLineStart(t, i) == i = 0 \/ t[i] = NL

\* The 0-based offset just after the line break that ends the line holding
\* offset i, or Len(t) + 1 when that line has no line break.
AfterLine(t, i) ==
  LET E == { j \in (i + 1)..Len(t) : t[j] = NL }
  IN IF E = {} THEN Len(t) + 1 ELSE CHOOSE j \in E : \A o \in E : j <= o

\* The line beginning at offset i is a level-2 ATX heading: "##", whitespace,
\* a non-empty title (so it does not begin with "###").
IsLevel2Heading(t, i) ==
  /\ IsLineStart(t, i)
  /\ i + 3 <= Len(t)
  /\ t[i + 1] = "#" /\ t[i + 2] = "#" /\ t[i + 3] \in Blank
  /\ \E q \in (i + 4)..(AfterLine(t, i) - 1) :
        q <= Len(t) /\ t[q] \notin Blank

Level2Offsets(t) == { i \in 0..(Len(t) - 1) : IsLevel2Heading(t, i) }

\* The literal runs of the template with their braces resolved, and the block
\* they give with the name between them.
FixedRuns ==
  LET lit == SelectSeq(Template, LAMBDA x : x # "{agent_name}")
  IN [n \in 1..Len(lit) |->
        [i \in 1..Len(lit[n]) |->
           CASE lit[n][i] = "{{" -> "{"
             [] lit[n][i] = "}}" -> "}"
             [] OTHER -> lit[n][i]]]

ExpectedBlock(name) ==
  FixedRuns[1] \o name \o FixedRuns[2] \o name \o FixedRuns[3] \o name
    \o FixedRuns[4]

\* The name main() passes for file k: the file name without its ".md".
NameOf(k) == SubSeq(Agents[k], 1, Len(Agents[k]) - 3)

Calls == { calls[n] : n \in DOMAIN calls }

-----------------------------------------------------------------------------
(* Properties *)

\* C1  Idempotence guard: a call on a text that holds the marker anywhere
\* returns False and leaves the stored text exactly as it was.
ThmC1 ==
  \A c \in Calls :
     MarkerOccurs(c.content) => (c.ret = FALSE /\ c.after = c.before)

\* A call on a text that holds the marker and also a heading the scan would
\* have matched.
WitC1 ==
  \E c \in Calls :
     /\ MarkerOccurs(c.content)
     /\ \E i \in Level2Offsets(c.content) : MatchEnd(c.content, i) # -1
     /\ c.ret = FALSE

\* C2  Run twice = run once: after a first call that inserts, every further
\* call returns False and leaves the text as the first call left it, and the
\* text holds the marker exactly once.
ThmC2 ==
  (calls # <<>> /\ calls[1].ret) =>
     /\ \A n \in 2..Len(calls) :
           calls[n].ret = FALSE /\ calls[n].after = calls[1].after
     /\ fs[idx] = calls[1].after
     /\ MarkerCount(fs[idx]) = 1

WitC2 == Len(calls) >= 2 /\ calls[1].ret /\ ~calls[2].ret

\* C3  Anchor selection (as claimed): whenever a call inserts, the anchor is
\* the first line of the text that is a level-2 ATX heading.
CexC3 ==
  \A c \in Calls :
     c.ret => /\ Level2Offsets(c.content) # {}
              /\ \A i \in Level2Offsets(c.content) : c.start <= i
              /\ c.start \in Level2Offsets(c.content)

\* C4  Insertion offset (as claimed): whenever a call inserts, the block
\* starts just after the line break of the anchor's line.
CexC4 ==
  \A c \in Calls : c.ret => c.insert_pos = AfterLine(c.content, c.start)

\* C5  Missing anchor (as claimed): a text with neither the marker nor a
\* level-2 heading line gets no insertion and stays as it was.
CexC5 ==
  \A c \in Calls :
     (~MarkerOccurs(c.content) /\ Level2Offsets(c.content) = {})
        => (c.ret = FALSE /\ c.after = c.before)

\* C6  Anchor completeness (as claimed): a text without the marker that has
\* a level-2 heading line gets the insertion.
CexC6 ==
  \A c \in Calls :
     (~MarkerOccurs(c.content) /\ Level2Offsets(c.content) # {}) => c.ret

\* C7  Outcome distinction (as claimed): the value returned for "already
\* present" differs from the value returned for "no insertion point".
CexC7 ==
  \A c \in Calls, d \in Calls :
     (c.msg = "exists" /\ d.msg = "noplace") => c.ret # d.ret

\* C7  (amended) Both outcomes return False; what tells them apart is the
\* line printed: "exists" exactly when the text holds the marker, "noplace"
\* exactly when it does not and nothing was inserted.
ThmC7 ==
  \A c \in Calls :
     /\ (c.msg = "exists") <=> MarkerOccurs(c.content)
     /\ (c.msg = "noplace") <=> (~MarkerOccurs(c.content) /\ ~c.wrote)
     /\ (c.msg \in {"exists", "noplace"}) <=> (c.ret = FALSE)

WitC7 ==
  \E c \in Calls, d \in Calls :
     c.msg = "exists" /\ d.msg = "noplace" /\ c.ret = d.ret

\* C8  Splice preserves the original: whenever a call inserts, the new text
\* is the text before the offset, the block, and the text from the offset on;
\* the block is the template's fixed runs with the file's name in each
\* replacement field, and no field or escaped brace is left in it.
ThmC8 ==
  \A c \in Calls :
     c.ret =>
       LET B == ExpectedBlock(NameOf(c.file))
           p == c.insert_pos
           old == c.content
           new == c.after
       IN /\ p \in 0..Len(old)
          /\ Len(new) = Len(old) + Len(B)
          /\ \A i \in 1..p : new[i] = old[i]
          /\ \A i \in 1..Len(B) : new[p + i] = B[i]
          /\ \A i \in (p + 1)..Len(old) : new[Len(B) + i] = old[i]
          /\ \A i \in 1..Len(B) : B[i] \notin {"{agent_name}", "{{", "}}"}
          /\ Len(FixedRuns) = 4

\* An insertion strictly inside the text: something before and after it.
WitC8 ==
  \E c \in Calls :
     c.ret /\ c.start > 0 /\ c.insert_pos < Len(c.content)

\* C9  Batch continuation: the files are visited once each in list order,
\* whatever happened to the earlier ones, and a file that is missing, holds
\* the marker or has no insertion point is left as it was.
ThmC9 ==
  /\ Len(visited) <= Len(Agents)
  /\ \A i \in 1..Len(visited) : visited[i] = i
  /\ pc = "done" => Len(visited) = Len(Agents)
  /\ pc \in {"loop", "done"} =>
       \A f \in Files :
          (\/ snapshot[f] = NoFile
           \/ MarkerOccurs(snapshot[f])
           \/ \E c \in Calls : c.run = runs /\ c.file = f /\ c.msg = "noplace")
             => fs[f] = snapshot[f]

\* A finished run whose first file had no insertion point, whose second was
\* missing and whose third held the marker.
WitC9 ==
  /\ pc = "done"
  /\ \E c \in Calls : c.run = runs /\ c.file = 1 /\ c.msg = "noplace"
  /\ snapshot[2] = NoFile
  /\ \E c \in Calls : c.run = runs /\ c.file = 3 /\ c.msg = "exists"

\* C10  Batch count: the count printed at the end of a run is the number of
\* files rewritten in that run, a file is written exactly when its call
\* returned True, and a run that follows another reports 0 and changes
\* nothing.
ThmC10 ==
  /\ \A c \in Calls : c.wrote <=> c.ret
  /\ \A c \in Calls : (c.after # c.before) <=> c.ret
  /\ pc = "done" =>
       /\ counts # <<>> /\ counts[Len(counts)] = updated_count
       /\ updated_count = Cardinality({ f \in Files : fs[f] # snapshot[f] })
       /\ { f \in Files : fs[f] # snapshot[f] }
            = { c.file : c \in { d \in Calls : d.run = runs /\ d.ret } }
       /\ runs >= 2 => (updated_count = 0 /\ fs = snapshot)

\* Two runs done, the first of which updated a file and skipped another.
WitC10 ==
  /\ pc = "done" /\ runs = 2
  /\ counts[1] >= 1 /\ counts[1] < Len(Agents)
  /\ counts[2] = 0

====
